---- MODULE Spec2Model ----
(***************************************************************************)
(* Model of the financial-model generation service: the request layer     *)
(* (server/routes.ts), the three-agent generation pipeline                 *)
(* (server/gemini-service.ts), the model / version store                   *)
(* (server/storage.ts) and the two document renderers.                     *)
(*                                                                         *)
(* JavaScript values are tagged records [k |-> kind, v |-> payload] so     *)
(* that undefined, null, Infinity, numbers, arrays and objects can be told *)
(* apart the way the code tells them apart.  Money amounts are integers    *)
(* counted in hundredths.                                                  *)
(***************************************************************************)
EXTENDS Integers, Sequences, FiniteSets, TLC

VARIABLES
    financialModels,  \* table financial_models: sequence of rows, id = index
    modelVersions,    \* table model_versions: sequence of rows, id = index
    runs,             \* the processModelGeneration calls started so far
    disk,             \* files present under generated_models/
    versionCalls,     \* the createModelVersion calls started so far
    response,         \* the HTTP response the last step sent, if any
    vIn,              \* validator harness: the artifact handed to the stage
    vOut,             \* validator harness: what the stage produced
    scenarios         \* table scenarios: the rows, and how many ids were issued

vars == <<financialModels, modelVersions, runs, versionCalls, disk, response, vIn, vOut,
          scenarios>>

(***************************************************************************)
(* Bounds of the model.                                                    *)
(***************************************************************************)
MaxModels == 1
StoreMaxModels == 1
StoreMaxRuns == 2
MaxVersions == 1
MaxLen == 13

(***************************************************************************)
(* JavaScript values.                                                      *)
(***************************************************************************)
Undefined == [k |-> "undefined", v |-> 0]
Null == [k |-> "null", v |-> 0]
Infinity == [k |-> "Infinity", v |-> 0]
Num(n) == [k |-> "number", v |-> n]
Arr(s) == [k |-> "array", v |-> s]
Obj(r) == [k |-> "object", v |-> r]
Str(s) == [k |-> "string", v |-> s]
NaN == [k |-> "NaN", v |-> 0]

\* Number(x) for the values a request body carries: a number, null or nothing
ToNumber(x) == IF x.k = "number" THEN x
               ELSE IF x.k = "null" THEN Num(0)
               ELSE NaN

\* typeof x === 'number' && isFinite(x)
IsFiniteNumber(x) == x.k = "number"

\* !x || !isFinite(x) for a key metric: undefined, null, 0 and Infinity
NeedsBackfill(x) == \/ x.k \in {"undefined", "null", "Infinity"}
                    \/ x.k = "number" /\ x.v = 0

\* x * (pct / 100) on amounts counted in hundredths
Times(x, pct) == (x \div 100) * pct + ((x % 100) * pct) \div 100

(***************************************************************************)
(* Agent 3: the validator (gemini-service.ts, runValidatorAgent).          *)
(* An artifact is Obj([executiveSummary, revenueProjections, cashFlow,     *)
(* annualProjections, keyMetrics, riskAnalysis, recommendations]); the     *)
(* arrays are Arr(<<entries>>) or Undefined, keyMetrics is Obj([...]) or   *)
(* Undefined, and each key metric is a JavaScript value.                   *)
(***************************************************************************)

\* an entry that repeats lastMonth without growth
RevenueEntryFlat(lastMonth, n) ==
    [month |-> n,
     revenue |-> lastMonth.revenue,
     costs |-> lastMonth.costs,
     grossProfit |-> lastMonth.grossProfit]

\* an entry whose cumulative cash adds lastMonth's own net cash flow
CashFlowEntryStaleNet(lastMonth, n) ==
    [month |-> n,
     inflow |-> Times(lastMonth.inflow, 105),
     outflow |-> Times(lastMonth.outflow, 103),
     netCashFlow |-> Times(lastMonth.netCashFlow, 107),
     cumulativeCash |-> lastMonth.cumulativeCash + lastMonth.netCashFlow]

\* lines 213-218: the entry pushed after lastMonth
RevenueEntry(lastMonth, n) ==
    [month |-> n,
     revenue |-> Times(lastMonth.revenue, 105),
     costs |-> Times(lastMonth.costs, 103),
     grossProfit |-> Times(lastMonth.grossProfit, 107)]

\* lines 226-232
CashFlowEntry(lastMonth, n) ==
    [month |-> n,
     inflow |-> Times(lastMonth.inflow, 105),
     outflow |-> Times(lastMonth.outflow, 103),
     netCashFlow |-> Times(lastMonth.netCashFlow, 107),
     cumulativeCash |-> lastMonth.cumulativeCash + Times(lastMonth.netCashFlow, 107)]

\* a padding that pushes one entry per call
PadRevenueOnce(s) ==
    IF Len(s) >= 12 THEN s
    ELSE Append(s, RevenueEntry(s[Len(s)], Len(s) + 1))

\* lines 209-220: while (length < 12) push; a longer array is left alone
RECURSIVE PadRevenue(_)
PadRevenue(s) ==
    IF Len(s) >= 12 THEN s
    ELSE PadRevenue(Append(s, RevenueEntry(s[Len(s)], Len(s) + 1)))

\* lines 222-234
RECURSIVE PadCashFlow(_)
PadCashFlow(s) ==
    IF Len(s) >= 12 THEN s
    ELSE PadCashFlow(Append(s, CashFlowEntry(s[Len(s)], Len(s) + 1)))

\* model.x.length on undefined, or lastMonth.revenue with lastMonth undefined
\* (an empty array): a TypeError
PaddingThrows(a) == \/ a.k # "array"
                    \/ Len(a.v) = 0

\* line 237: !model.annualProjections || model.annualProjections.length !== 5
NeedsAnnualFallback(a) == \/ a.k # "array"
                          \/ Len(a.v) # 5

\* a test that does not compare revenue with net profit
hasValidYear1DataAnyOrder(keyMetrics) ==
    /\ keyMetrics.k = "object"
    /\ IsFiniteNumber(keyMetrics.v.year1TotalRevenue)
    /\ IsFiniteNumber(keyMetrics.v.year1NetProfit)

\* lines 241-246
hasValidYear1Data(keyMetrics) ==
    /\ keyMetrics.k = "object"
    /\ IsFiniteNumber(keyMetrics.v.year1TotalRevenue)
    /\ IsFiniteNumber(keyMetrics.v.year1NetProfit)
    /\ keyMetrics.v.year1TotalRevenue.v >= keyMetrics.v.year1NetProfit.v

\* a reconstruction whose expenses grow like the revenue
AnnualFallbackOneRate(km) ==
    LET year1Revenue == km.year1TotalRevenue.v
        year1Expenses == year1Revenue - km.year1NetProfit.v
        Year(y, r) == [year |-> y, revenue |-> Times(year1Revenue, r),
                       expenses |-> Times(year1Expenses, r),
                       grossProfit |-> Times(year1Revenue, r) - Times(year1Expenses, r),
                       netProfit |-> Times(year1Revenue, r) - Times(year1Expenses, r)]
    IN << [year |-> 1, revenue |-> year1Revenue, expenses |-> year1Expenses,
           grossProfit |-> year1Revenue - year1Expenses,
           netProfit |-> km.year1NetProfit.v],
          Year(2, 140), Year(3, 190), Year(4, 250), Year(5, 320) >>

\* lines 254-293
AnnualFallback(km) ==
    LET year1Revenue == km.year1TotalRevenue.v
        year1Expenses == year1Revenue - km.year1NetProfit.v
        Year(y, r, e) == [year |-> y, revenue |-> Times(year1Revenue, r),
                          expenses |-> Times(year1Expenses, e),
                          grossProfit |-> Times(year1Revenue, r) - Times(year1Expenses, e),
                          netProfit |-> Times(year1Revenue, r) - Times(year1Expenses, e)]
    IN << [year |-> 1, revenue |-> year1Revenue, expenses |-> year1Expenses,
           grossProfit |-> year1Revenue - year1Expenses,
           netProfit |-> km.year1NetProfit.v],
          Year(2, 140, 130), Year(3, 190, 160), Year(4, 250, 200), Year(5, 320, 250) >>

\* lines 297-304, for an artifact whose keyMetrics is an object
BackfillYear5(m) ==
    IF m.annualProjections.k = "array" /\ Len(m.annualProjections.v) = 5
    THEN LET a == m.annualProjections.v
             km == m.keyMetrics.v
             km1 == IF NeedsBackfill(km.projectedYear5Revenue)
                    THEN [km EXCEPT !.projectedYear5Revenue = Num(a[5].revenue)]
                    ELSE km
             km2 == IF NeedsBackfill(km1.projectedYear5NetProfit)
                    THEN [km1 EXCEPT !.projectedYear5NetProfit = Num(a[5].netProfit)]
                    ELSE km1
         IN [m EXCEPT !.keyMetrics = Obj(km2)]
    ELSE m

\* lines 307-308: undefined compares false both ways, null counts as 0
ClampBreakEven(b) ==
    CASE b.k = "number" /\ b.v < 1 -> Num(1)
      [] b.k = "number" /\ b.v > 24 -> Num(24)
      [] b.k = "null" -> Num(1)
      [] b.k = "Infinity" -> Num(24)
      [] OTHER -> b

Threw == [threw |-> TRUE, model |-> Undefined]
Returned(m) == [threw |-> FALSE, model |-> Obj(m)]

\* lines 202-311
runValidatorAgent(model) ==
    IF model.k # "object" THEN Threw
    ELSE IF PaddingThrows(model.v.revenueProjections) THEN Threw
    ELSE IF PaddingThrows(model.v.cashFlow) THEN Threw
    ELSE
      LET m2 == [model.v EXCEPT !.revenueProjections = Arr(PadRevenue(@.v)),
                                !.cashFlow = Arr(PadCashFlow(@.v))]
      IN IF NeedsAnnualFallback(m2.annualProjections) /\ ~hasValidYear1Data(m2.keyMetrics)
         THEN Returned([m2 EXCEPT !.annualProjections = Arr(<< >>)])
         ELSE
           LET m3 == IF NeedsAnnualFallback(m2.annualProjections)
                     THEN [m2 EXCEPT !.annualProjections = Arr(AnnualFallback(m2.keyMetrics.v))]
                     ELSE m2
           IN IF m3.keyMetrics.k # "object" THEN Threw
              ELSE LET m4 == BackfillYear5(m3)
                   IN Returned([m4 EXCEPT !.keyMetrics.v.breakEvenMonth = ClampBreakEven(@)])

(***************************************************************************)
(* Artifacts the model-construction call can return (JSON.parse of the     *)
(* response text, gemini-service.ts line 198).                             *)
(***************************************************************************)
MkRevenue(n) == [i \in 1..n |-> [month |-> i, revenue |-> 100000, costs |-> 40000,
                                 grossProfit |-> 60000]]
MkCashFlow(n) == [i \in 1..n |-> [month |-> i, inflow |-> 100000, outflow |-> 40000,
                                  netCashFlow |-> 60000, cumulativeCash |-> 60000 * i]]
MkAnnual(n) == [i \in 1..n |-> [year |-> i, revenue |-> 1200000 * i, expenses |-> 960000 * i,
                                grossProfit |-> 240000 * i, netProfit |-> 240000 * i]]
MkKeyMetrics(be, y1r, y1p, y5r, y5p) ==
    Obj([breakEvenMonth |-> be, year1TotalRevenue |-> y1r, year1NetProfit |-> y1p,
         roi |-> Num(20), paybackPeriod |-> Num(18),
         projectedYear5Revenue |-> y5r, projectedYear5NetProfit |-> y5p])
MkModel(rev, cf, ann, km) ==
    Obj([executiveSummary |-> Str("summary"), revenueProjections |-> rev, cashFlow |-> cf,
         annualProjections |-> ann, keyMetrics |-> km,
         riskAnalysis |-> Arr(<< >>), recommendations |-> Arr(<< >>)])

RevenueArrays == {Undefined} \cup {Arr(MkRevenue(n)) : n \in 0..MaxLen}
AnnualArrays == {Undefined} \cup {Arr(MkAnnual(n)) : n \in {0, 3, 5, 6}}
BreakEvens == {Undefined, Num(-2), Num(0), Num(1), Num(12), Num(24), Num(25), Num(30)}
Year1Pairs == { <<Num(12000000), Num(2400000)>>, <<Num(100), Num(100)>>,
                <<Num(100), Num(200)>>, <<Undefined, Num(2400000)>>,
                <<Num(12000000), Infinity>> }
Year5Values == {Undefined, Num(0), Num(500)}
KeyMetricsValues ==
    {Undefined} \cup
    { MkKeyMetrics(be, y1[1], y1[2], y5, y5) :
        be \in BreakEvens, y1 \in Year1Pairs, y5 \in Year5Values }
ValidatorInputs ==
    {Null} \cup
    { MkModel(rev, cf, ann, km) :
        rev \in RevenueArrays, cf \in {Arr(MkCashFlow(n)) : n \in {0, 10, 11, 12, MaxLen}},
        ann \in AnnualArrays, km \in KeyMetricsValues }


(***************************************************************************)
(* Validator harness: the stage applied to every artifact of               *)
(* ValidatorInputs, and once more to its own output.                       *)
(***************************************************************************)
NotCalled == [calls |-> 0, threw |-> FALSE, model |-> Undefined]

ValidateFirst ==
    /\ vOut.calls = 0
    /\ vOut' = [calls |-> 1, threw |-> runValidatorAgent(vIn).threw,
                model |-> runValidatorAgent(vIn).model]
    /\ UNCHANGED <<financialModels, modelVersions, runs, versionCalls, disk, response, vIn, scenarios>>

ValidateAgain ==
    /\ vOut.calls = 1
    /\ ~vOut.threw
    /\ vOut' = [calls |-> 2, threw |-> runValidatorAgent(vOut.model).threw,
                model |-> runValidatorAgent(vOut.model).model]
    /\ UNCHANGED <<financialModels, modelVersions, runs, versionCalls, disk, response, vIn, scenarios>>

NoResponse == [op |-> "none", code |-> 0, body |-> Undefined]

InitValidator ==
    /\ financialModels = << >>
    /\ modelVersions = << >>
    /\ runs = << >>
    /\ versionCalls = << >>
    /\ disk = {}
    /\ response = NoResponse
    /\ vIn \in ValidatorInputs
    /\ vOut = NotCalled
    /\ scenarios = [issued |-> 0, rows |-> {}]

NextValidator == ValidateFirst \/ ValidateAgain

SpecValidator == InitValidator /\ [][NextValidator]_vars


(***************************************************************************)
(* The model store (storage.ts) and the request bodies.                    *)
(***************************************************************************)
SectorCatalog == {"Retail"}

MkBody(sector, cost, revenue, margin, opex) ==
    [businessIdea |-> Str("idea"), selectedSector |-> sector,
     startupCost |-> Num(cost), monthlyRevenue |-> Num(revenue),
     grossMargin |-> Num(margin), operatingExpenses |-> Num(opex)]

\* bodies of POST /api/generate-model
SubmitBodies == { MkBody(Undefined, 50000, 10000, 60, 5000),
                  MkBody(Str("Retail"), 50000, 10000, 60, 5000) }

\* the four revised assumptions of POST /api/models/:id/regenerate
RegenerateBodies ==
    { [startupCost |-> Num(70000), monthlyRevenue |-> Num(12000),
       grossMargin |-> Num(55), operatingExpenses |-> Num(6000)] }

KnownModel(id) == id \in 1..Len(financialModels)

\* one spreadsheet file name for every Model
ExcelPathShared(id) == [k |-> "path", v |-> [file |-> "financial-model.xlsx", id |-> 0]]

\* excel-generator.ts lines 268-269: financial-model-${modelId}.xlsx
ExcelPath(id) == [k |-> "path", v |-> [file |-> "financial-model.xlsx", id |-> id]]
\* routes.ts line 132: business-report-${id}.docx
DocxPath(id) == [k |-> "path", v |-> [file |-> "business-report.docx", id |-> id]]

\* the column default of financial_models.status, were line 45 left out
SubmitStatusDefault == "pending"

\* routes.ts line 45: the status of the record Submit creates
SubmitStatus == "processing"

\* routes.ts lines 35-46 and storage.ts lines 60-63: the inserted row
NewModelRow(id, body) ==
    [id |-> id,
     businessIdea |-> body.businessIdea,
     selectedSector |-> body.selectedSector,
     startupCost |-> body.startupCost,
     monthlyRevenue |-> body.monthlyRevenue,
     grossMargin |-> body.grossMargin,
     operatingExpenses |-> body.operatingExpenses,
     customAssumptions |-> Null,
     generatedModel |-> Null,
     excelFilePath |-> Null,
     pdfFilePath |-> Null,
     status |-> SubmitStatus]

\* an update that replaces the whole outcome of the record: the artifact and
\* the paths the update does not name are cleared
updateFinancialModelWholeOutcome(id, updates) ==
    [financialModels EXCEPT ![id] =
        [f \in DOMAIN @ |-> IF f \in DOMAIN updates THEN updates[f]
                            ELSE IF f \in {"generatedModel", "excelFilePath", "pdfFilePath"}
                                 THEN Null
                                 ELSE @[f]]]

\* storage.ts lines 74-84: UPDATE ... SET updates WHERE id = id
updateFinancialModel(id, updates) ==
    [financialModels EXCEPT ![id] =
        [f \in DOMAIN @ |-> IF f \in DOMAIN updates THEN updates[f] ELSE @[f]]]

\* a final update that leaves the two paths out
CompletedUpdateWithoutPaths(generatedModel, excelPath, docxPath) ==
    [generatedModel |-> generatedModel, excelFilePath |-> Null,
     pdfFilePath |-> Null, status |-> "completed"]

\* routes.ts lines 343-349: the final update of a successful run
CompletedUpdate(generatedModel, excelPath, docxPath) ==
    [generatedModel |-> generatedModel, excelFilePath |-> excelPath,
     pdfFilePath |-> docxPath, status |-> "completed"]

\* a failure update that also records the spreadsheet already written
FailedUpdateWithPath == [status |-> "failed", excelFilePath |-> ExcelPath(1)]

\* routes.ts lines 354-356 and line 58
FailedUpdate == [status |-> "failed"]

(***************************************************************************)
(* A run of processModelGeneration (routes.ts lines 303-358).  pc names    *)
(* the call the run is awaiting and arg the argument of that call;         *)
(* failedAt names the call whose exception sent the run to the catch block *)
(* (the `error` the block logs); writes lists the statuses of the run's    *)
(* updates that the store has accepted.                                    *)
(***************************************************************************)
Stages == <<"getSectorByName", "runDataAnalystAgent", "runFinancialModelerAgent",
            "runValidatorAgent", "generateExcelFile", "generateDocxFile",
            "updateFinancialModel">>

\* an order that hands the modeler's artifact straight to the renderers
AfterStageSkippingValidator(stage) ==
    CASE stage = "getSectorByName" -> "runDataAnalystAgent"
      [] stage = "runDataAnalystAgent" -> "runFinancialModelerAgent"
      [] stage = "runFinancialModelerAgent" -> "generateExcelFile"
      [] stage = "runValidatorAgent" -> "generateExcelFile"
      [] stage = "generateExcelFile" -> "generateDocxFile"
      [] stage = "generateDocxFile" -> "updateFinancialModel"

\* the call issued when `stage` has returned its result
AfterStage(stage) ==
    CASE stage = "getSectorByName" -> "runDataAnalystAgent"
      [] stage = "runDataAnalystAgent" -> "runFinancialModelerAgent"
      [] stage = "runFinancialModelerAgent" -> "runValidatorAgent"
      [] stage = "runValidatorAgent" -> "generateExcelFile"
      [] stage = "generateExcelFile" -> "generateDocxFile"
      [] stage = "generateDocxFile" -> "updateFinancialModel"

\* an error path that calls a failed text-generation stage again
OnErrorRetry(stage) ==
    CASE stage = "catchUpdate" -> "handlerUpdate"
      [] stage = "handlerUpdate" -> "done"
      [] stage \in {"runDataAnalystAgent", "runFinancialModelerAgent"} -> stage
      [] OTHER -> "catchUpdate"

\* an error path whose handler goes back to the catch block's update
OnErrorUpdateAgain(stage) ==
    CASE stage = "catchUpdate" -> "handlerUpdate"
      [] stage = "handlerUpdate" -> "catchUpdate"
      [] OTHER -> "catchUpdate"

\* routes.ts lines 352-356: the call issued when `stage` has thrown
OnError(stage) ==
    CASE stage = "catchUpdate" -> "handlerUpdate"
      [] stage = "handlerUpdate" -> "done"
      [] OTHER -> "catchUpdate"

\* routes.ts lines 317-319: the first call of a run
FirstStage(input) ==
    IF input.selectedSector.k = "string" THEN "getSectorByName" ELSE "runDataAnalystAgent"

\* routes.ts lines 49-56: the input handed to processModelGeneration
RunInput(businessIdea, selectedSector, assumptions) ==
    [businessIdea |-> businessIdea, selectedSector |-> selectedSector,
     startupCost |-> ToNumber(assumptions.startupCost),
     monthlyRevenue |-> ToNumber(assumptions.monthlyRevenue),
     grossMargin |-> ToNumber(assumptions.grossMargin),
     operatingExpenses |-> ToNumber(assumptions.operatingExpenses)]

NewRun(id, input) ==
    [modelId |-> id, input |-> input, pc |-> FirstStage(input),
     arg |-> Obj(input),
     sectorData |-> Undefined, dataAnalysis |-> Undefined,
     generatedModel |-> Undefined, validated |-> FALSE,
     excelPath |-> Undefined, docxPath |-> Undefined,
     failedAt |-> "none", writes |-> << >>]

\* the run moves on to call `next` with argument `arg`
Call(run, next, arg) ==
    [run EXCEPT !.pc = next, !.arg = arg]

\* leaving the try block: its locals are gone
DropLocals(run) ==
    [run EXCEPT !.input = Undefined,
                !.sectorData = Undefined, !.dataAnalysis = Undefined,
                !.generatedModel = Undefined, !.validated = FALSE,
                !.excelPath = Undefined, !.docxPath = Undefined]

\* the run is over
Done(run) == [DropLocals(run) EXCEPT !.pc = "done", !.arg = Undefined]

\* the awaited call threw: control goes to the catch block (routes.ts lines
\* 352-356), from there to the .catch handler (lines 56-59), from there nowhere
Throw(run) ==
    IF OnError(run.pc) = "done"
    THEN Done(run)
    ELSE [Call(DropLocals(run), OnError(run.pc), Obj(FailedUpdate))
            EXCEPT !.failedAt = IF run.failedAt = "none" THEN run.pc ELSE run.failedAt]

\* the store accepted the update, and the run goes on to its error path
FinishThenThrow(run, status) == [Throw(run) EXCEPT !.writes = Append(@, status)]

\* the store accepted the update: the run is over
Finish(run, status) == [Done(run) EXCEPT !.writes = Append(@, status)]

(***************************************************************************)
(* Responses of the external calls.                                        *)
(***************************************************************************)
\* response.text of the market-analysis call, or "error" when the call throws
AnalystResponses == {"error", "", "analysis"}

\* gemini-service.ts line 57: response.text || "Analysis completed"
AnalysisText(text) == IF text = "" THEN Str("Analysis completed") ELSE Str(text)

\* artifacts the model-construction call returns in the pipeline runs
PipelineArtifacts ==
    { MkModel(Arr(MkRevenue(12)), Arr(MkCashFlow(12)), Arr(MkAnnual(5)),
              MkKeyMetrics(Num(12), Num(12000000), Num(2400000), Num(500), Num(500))),
      MkModel(Arr(MkRevenue(11)), Arr(MkCashFlow(11)), Undefined,
              MkKeyMetrics(Num(30), Num(12000000), Num(2400000), Undefined, Undefined)),
      MkModel(Arr(MkRevenue(MaxLen)), Arr(MkCashFlow(12)), Arr(MkAnnual(3)),
              MkKeyMetrics(Num(30), Num(100), Num(200), Num(500), Num(500))),
      MkModel(Arr(MkRevenue(0)), Arr(MkCashFlow(12)), Arr(MkAnnual(5)),
              MkKeyMetrics(Num(12), Num(12000000), Num(2400000), Num(500), Num(500))) }

\* the model-construction call: it throws, or returns a response whose text
\* is empty, is not JSON, or is the JSON text of a value
ModelerResponses ==
    { [kind |-> "error", value |-> Undefined],
      [kind |-> "empty", value |-> Undefined],
      [kind |-> "unparseable", value |-> Undefined] }
    \cup { [kind |-> "json", value |-> a] : a \in PipelineArtifacts }

\* gemini-service.ts lines 193-198: does runFinancialModelerAgent throw
ModelerThrows(resp) == resp.kind \in {"error", "empty", "unparseable"}

\* excel-generator.ts line 190 on: generatedModel.keyMetrics.breakEvenMonth is
\* read, a TypeError when keyMetrics is undefined
RenderThrows(generatedModel) == generatedModel.v.keyMetrics.k # "object"

(***************************************************************************)
(* POST /api/generate-model (routes.ts lines 23-67).  ok: the insert       *)
(* succeeds.                                                               *)
(***************************************************************************)
Submit(body, ok) ==
    /\ IF ok
       THEN LET id == Len(financialModels) + 1
            IN /\ financialModels' = Append(financialModels, NewModelRow(id, body))
               /\ runs' = Append(runs, NewRun(id,
                            RunInput(body.businessIdea, body.selectedSector, body)))
               /\ response' = [op |-> "generate-model", code |-> 200,
                               body |-> Obj([id |-> id, status |-> "processing"])]
       ELSE /\ response' = [op |-> "generate-model", code |-> 500, body |-> Undefined]
            /\ UNCHANGED <<financialModels, runs>>
    /\ UNCHANGED <<modelVersions, versionCalls, disk, vIn, vOut, scenarios>>

(***************************************************************************)
(* The steps of a run: each is the return of the awaited call, followed by *)
(* the code up to the next await.                                          *)
(***************************************************************************)
Awaiting(r, stage) == r \in 1..Len(runs) /\ runs[r].pc = stage

\* routes.ts line 318: storage.getSectorByName returns a row or undefined
SectorReturn(r, ok) ==
    /\ Awaiting(r, "getSectorByName")
    /\ LET run == runs[r]
           found == IF run.input.selectedSector.v \in SectorCatalog
                    THEN Obj([sectorName |-> run.input.selectedSector.v])
                    ELSE Undefined
       IN runs' = [runs EXCEPT ![r] =
                     IF ok THEN Call([run EXCEPT !.sectorData = found],
                                     AfterStage(run.pc), Obj(run.input))
                     ELSE Throw(run)]
    /\ response' = NoResponse
    /\ UNCHANGED <<financialModels, modelVersions, versionCalls, disk, vIn, vOut, scenarios>>

\* gemini-service.ts lines 318-322
AnalystReturn(r, text) ==
    /\ Awaiting(r, "runDataAnalystAgent")
    /\ LET run == runs[r]
       IN runs' = [runs EXCEPT ![r] =
                     IF text = "error" THEN Throw(run)
                     ELSE Call([run EXCEPT !.dataAnalysis = AnalysisText(text)],
                               AfterStage(run.pc), AnalysisText(text))]
    /\ response' = NoResponse
    /\ UNCHANGED <<financialModels, modelVersions, versionCalls, disk, vIn, vOut, scenarios>>

\* gemini-service.ts lines 193-198 and 322-326
ModelerReturn(r, resp) ==
    /\ Awaiting(r, "runFinancialModelerAgent")
    /\ LET run == runs[r]
       IN runs' = [runs EXCEPT ![r] =
                     IF ModelerThrows(resp) THEN Throw(run)
                     ELSE Call([run EXCEPT !.generatedModel = resp.value],
                               AfterStage(run.pc), resp.value)]
    /\ response' = NoResponse
    /\ UNCHANGED <<financialModels, modelVersions, versionCalls, disk, vIn, vOut, scenarios>>

\* a validation step that saves the artifact on the record as soon as it has it
ValidatorReturnPersisting(r) ==
    /\ Awaiting(r, "runValidatorAgent")
    /\ LET run == runs[r]
           res == runValidatorAgent(run.arg)
       IN /\ runs' = [runs EXCEPT ![r] =
                        IF res.threw THEN Throw(run)
                        ELSE Call([run EXCEPT !.generatedModel = res.model, !.validated = TRUE,
                                            !.dataAnalysis = Undefined],
                                  AfterStage(run.pc), res.model)]
          /\ financialModels' = IF res.threw THEN financialModels
                                ELSE updateFinancialModel(run.modelId,
                                                          [generatedModel |-> res.model])
    /\ response' = NoResponse
    /\ UNCHANGED <<modelVersions, versionCalls, disk, vIn, vOut, scenarios>>

\* gemini-service.ts lines 326-332 and routes.ts lines 322-332
ValidatorReturn(r) ==
    /\ Awaiting(r, "runValidatorAgent")
    /\ LET run == runs[r]
           res == runValidatorAgent(run.arg)
       IN runs' = [runs EXCEPT ![r] =
                     IF res.threw THEN Throw(run)
                     ELSE Call([run EXCEPT !.generatedModel = res.model, !.validated = TRUE,
                                         !.dataAnalysis = Undefined],
                               AfterStage(run.pc), res.model)]
    /\ response' = NoResponse
    /\ UNCHANGED <<financialModels, modelVersions, versionCalls, disk, vIn, vOut, scenarios>>

\* routes.ts lines 328-340 and excel-generator.ts lines 268-281
ExcelReturn(r, ok) ==
    /\ Awaiting(r, "generateExcelFile")
    /\ LET run == runs[r]
       IN IF ok /\ ~RenderThrows(run.arg)
          THEN /\ disk' = disk \cup {ExcelPath(run.modelId)}
               /\ runs' = [runs EXCEPT ![r] =
                             Call([run EXCEPT !.excelPath = ExcelPath(run.modelId)],
                                  AfterStage(run.pc), run.generatedModel)]
          ELSE /\ runs' = [runs EXCEPT ![r] = Throw(run)]
               /\ UNCHANGED disk
    /\ response' = NoResponse
    /\ UNCHANGED <<financialModels, modelVersions, versionCalls, vIn, vOut, scenarios>>

\* routes.ts lines 335-349; the renderer writes business-report-<id>.docx
DocxReturn(r, ok) ==
    /\ Awaiting(r, "generateDocxFile")
    /\ LET run == runs[r]
       IN IF ok
          THEN /\ disk' = disk \cup {DocxPath(run.modelId)}
               /\ runs' = [runs EXCEPT ![r] =
                             Call([run EXCEPT !.docxPath = DocxPath(run.modelId)],
                                  AfterStage(run.pc),
                                  Obj(CompletedUpdate(run.generatedModel, run.excelPath,
                                                      DocxPath(run.modelId))))]
          ELSE /\ runs' = [runs EXCEPT ![r] = Throw(run)]
               /\ UNCHANGED disk
    /\ response' = NoResponse
    /\ UNCHANGED <<financialModels, modelVersions, versionCalls, vIn, vOut, scenarios>>

\* the awaited storage.updateFinancialModel returns (routes.ts lines 343-351,
\* 354-356 and 58): the store applies the update, or rejects it
UpdateReturn(r, ok) ==
    /\ r \in 1..Len(runs)
    /\ runs[r].pc \in {"updateFinancialModel", "catchUpdate", "handlerUpdate"}
    /\ LET run == runs[r]
       IN IF ok
          THEN /\ financialModels' = updateFinancialModel(run.modelId, run.arg.v)
               /\ runs' = [runs EXCEPT ![r] = Finish(run, run.arg.v.status)]
          ELSE /\ runs' = [runs EXCEPT ![r] = Throw(run)]
               /\ UNCHANGED financialModels
    /\ response' = NoResponse
    /\ UNCHANGED <<modelVersions, versionCalls, disk, vIn, vOut, scenarios>>

(***************************************************************************)
(* GET /api/models/:id (routes.ts lines 81-95).                            *)
(***************************************************************************)
Query(id) ==
    /\ response' = IF KnownModel(id)
                   THEN [op |-> "get-model", code |-> 200, body |-> Obj(financialModels[id])]
                   ELSE [op |-> "get-model", code |-> 404, body |-> Undefined]
    /\ UNCHANGED <<financialModels, modelVersions, runs, versionCalls, disk, vIn, vOut, scenarios>>

(***************************************************************************)
(* GET /api/download/:id and GET /api/download-docx/:id (routes.ts lines   *)
(* 98-137).  The response records the id the request named.                *)
(***************************************************************************)
\* `!model.excelFilePath`: no path is recorded
NoPath(path) == path.k \in {"null", "undefined"} \/ (path.k = "string" /\ path.v = "")

\* the two endpoints and the column each one reads
DownloadColumn == [download |-> "excelFilePath", downloadDocx |-> "pdfFilePath"]

\* a download that sends the recorded path without looking at the disk
DownloadResponseUnchecked(op, id) ==
    IF ~KnownModel(id) \/ NoPath(financialModels[id][DownloadColumn[op]])
    THEN [op |-> op, id |-> id, code |-> 404, body |-> Str("Model or file not found")]
    ELSE [op |-> op, id |-> id, code |-> 200, body |-> financialModels[id][DownloadColumn[op]]]

\* routes.ts lines 103-111 and 124-132
DownloadResponse(op, id) ==
    IF ~KnownModel(id) \/ NoPath(financialModels[id][DownloadColumn[op]])
    THEN [op |-> op, id |-> id, code |-> 404, body |-> Str("Model or file not found")]
    ELSE IF financialModels[id][DownloadColumn[op]] \notin disk
         THEN [op |-> op, id |-> id, code |-> 404, body |-> Str("File not found on disk")]
         ELSE [op |-> op, id |-> id, code |-> 200,
               body |-> financialModels[id][DownloadColumn[op]]]

Download(op, id) ==
    /\ response' = DownloadResponse(op, id)
    /\ UNCHANGED <<financialModels, modelVersions, runs, versionCalls, disk, vIn, vOut, scenarios>>

\* the exports directory loses a file (the server only ever writes there)
RemoveFile(file) ==
    /\ file \in disk
    /\ disk' = disk \ {file}
    /\ response' = NoResponse
    /\ UNCHANGED <<financialModels, modelVersions, runs, versionCalls, vIn, vOut, scenarios>>

(***************************************************************************)
(* POST /api/models/:id/regenerate: the Submit flow keyed to an existing   *)
(* id.  The record takes the revised assumptions and status processing,    *)
(* and a run starts with the record's business idea and sector.            *)
(***************************************************************************)
Regenerate(id, body) ==
    /\ IF ~KnownModel(id)
       THEN /\ response' = [op |-> "regenerate", code |-> 404, body |-> Undefined]
            /\ UNCHANGED <<financialModels, runs>>
       ELSE LET updated == updateFinancialModel(id,
                               [startupCost |-> body.startupCost,
                                monthlyRevenue |-> body.monthlyRevenue,
                                grossMargin |-> body.grossMargin,
                                operatingExpenses |-> body.operatingExpenses,
                                status |-> "processing"])
            IN /\ financialModels' = updated
               /\ runs' = Append(runs, NewRun(id,
                             RunInput(updated[id].businessIdea, updated[id].selectedSector, body)))
               /\ response' = [op |-> "regenerate", code |-> 200, body |-> Obj(updated[id])]
    /\ UNCHANGED <<modelVersions, versionCalls, disk, vIn, vOut, scenarios>>

(***************************************************************************)
(* POST /api/models/:id/versions (routes.ts lines 152-170) and             *)
(* DbStorage.createModelVersion (storage.ts lines 94-121): three awaited   *)
(* queries, each a step.                                                   *)
(***************************************************************************)
\* a version row that leaves the artifact out of the snapshot
NewVersionRowWithoutArtifact(vid, modelId, versionNumber, model, changeDescription) ==
    [id |-> vid, modelId |-> modelId, versionNumber |-> versionNumber,
     businessIdea |-> model.businessIdea,
     selectedSector |-> model.selectedSector,
     startupCost |-> model.startupCost,
     monthlyRevenue |-> model.monthlyRevenue,
     grossMargin |-> model.grossMargin,
     operatingExpenses |-> model.operatingExpenses,
     customAssumptions |-> model.customAssumptions,
     generatedModel |-> Null,
     excelFilePath |-> model.excelFilePath,
     changeDescription |-> changeDescription]

\* storage.ts lines 105-118: the inserted version row
NewVersionRow(vid, modelId, versionNumber, model, changeDescription) ==
    [id |-> vid, modelId |-> modelId, versionNumber |-> versionNumber,
     businessIdea |-> model.businessIdea,
     selectedSector |-> model.selectedSector,
     startupCost |-> model.startupCost,
     monthlyRevenue |-> model.monthlyRevenue,
     grossMargin |-> model.grossMargin,
     operatingExpenses |-> model.operatingExpenses,
     customAssumptions |-> model.customAssumptions,
     generatedModel |-> model.generatedModel,
     excelFilePath |-> model.excelFilePath,
     changeDescription |-> changeDescription]

\* a count of the versions of every Model (the select without its where)
NextVersionNumberOfAll(modelId) == Len(modelVersions) + 1

\* storage.ts lines 98-103: existingVersions.length + 1
NextVersionNumber(modelId) ==
    Cardinality({i \in 1..Len(modelVersions) : modelVersions[i].modelId = modelId}) + 1

\* versionCalls without its c-th entry: the call has returned
Returned_(c) == [i \in 1..(Len(versionCalls) - 1) |->
                    IF i < c THEN versionCalls[i] ELSE versionCalls[i + 1]]

\* a first step without the `if (!model) throw`: an unknown id is snapshotted
\* as an empty record
CreateVersionReadUnchecked(id, changeDescription) ==
    /\ versionCalls' = Append(versionCalls,
          [modelId |-> id, pc |-> "selectVersions",
           model |-> IF KnownModel(id) THEN financialModels[id]
                     ELSE NewModelRow(id, MkBody(Undefined, 0, 0, 0, 0)),
           versionNumber |-> 0, changeDescription |-> changeDescription])
    /\ response' = NoResponse
    /\ UNCHANGED <<financialModels, modelVersions, runs, disk, vIn, vOut, scenarios>>

\* storage.ts lines 95-96: getFinancialModel returns; "Model not found" is
\* thrown for an unknown id and reaches the handler's catch (a 500)
CreateVersionRead(id, changeDescription) ==
    /\ IF KnownModel(id)
       THEN /\ versionCalls' = Append(versionCalls,
                 [modelId |-> id, pc |-> "selectVersions", model |-> financialModels[id],
                  versionNumber |-> 0, changeDescription |-> changeDescription])
            /\ response' = NoResponse
       ELSE /\ response' = [op |-> "create-version", code |-> 500, body |-> Undefined]
            /\ UNCHANGED versionCalls
    /\ UNCHANGED <<financialModels, modelVersions, runs, disk, vIn, vOut, scenarios>>

\* storage.ts lines 98-103: the select of the existing versions returns
CreateVersionCount(c) ==
    /\ c \in 1..Len(versionCalls)
    /\ versionCalls[c].pc = "selectVersions"
    /\ versionCalls' = [versionCalls EXCEPT ![c].pc = "insert",
                          ![c].versionNumber = NextVersionNumber(versionCalls[c].modelId)]
    /\ response' = NoResponse
    /\ UNCHANGED <<financialModels, modelVersions, runs, disk, vIn, vOut, scenarios>>

\* an insert that replaces a stored version of the same Model and number
CreateVersionInsertReplacing(c) ==
    /\ c \in 1..Len(versionCalls)
    /\ versionCalls[c].pc = "insert"
    /\ versionCalls' = Returned_(c)
    /\ LET call == versionCalls[c]
           same == {i \in 1..Len(modelVersions) :
                      /\ modelVersions[i].modelId = call.modelId
                      /\ modelVersions[i].versionNumber = call.versionNumber}
           at == IF same = {} THEN Len(modelVersions) + 1 ELSE CHOOSE i \in same : TRUE
           row == NewVersionRow(at, call.modelId, call.versionNumber, call.model,
                                call.changeDescription)
       IN /\ modelVersions' = IF same = {} THEN Append(modelVersions, row)
                              ELSE [modelVersions EXCEPT ![at] = row]
          /\ response' = [op |-> "create-version", code |-> 200, body |-> Obj(row)]
    /\ UNCHANGED <<financialModels, runs, disk, vIn, vOut, scenarios>>

\* storage.ts lines 105-120: the insert returns
CreateVersionInsert(c) ==
    /\ c \in 1..Len(versionCalls)
    /\ versionCalls[c].pc = "insert"
    /\ versionCalls' = Returned_(c)
    /\ LET call == versionCalls[c]
           row == NewVersionRow(Len(modelVersions) + 1, call.modelId,
                                call.versionNumber, call.model, call.changeDescription)
       IN /\ modelVersions' = Append(modelVersions, row)
          /\ response' = [op |-> "create-version", code |-> 200, body |-> Obj(row)]
    /\ UNCHANGED <<financialModels, runs, disk, vIn, vOut, scenarios>>

(***************************************************************************)
(* POST /api/models/:modelId/versions/:versionId/restore (routes.ts lines  *)
(* 173-191) and storage.restoreVersion: the version's snapshot fields are  *)
(* copied onto the model record.                                           *)
(***************************************************************************)
KnownVersion(modelId, versionId) ==
    /\ versionId \in 1..Len(modelVersions)
    /\ modelVersions[versionId].modelId = modelId

\* a restore that brings back the input parameters only
SnapshotFieldsInputsOnly(version) ==
    [businessIdea |-> version.businessIdea,
     selectedSector |-> version.selectedSector,
     startupCost |-> version.startupCost,
     monthlyRevenue |-> version.monthlyRevenue,
     grossMargin |-> version.grossMargin,
     operatingExpenses |-> version.operatingExpenses,
     customAssumptions |-> version.customAssumptions]

\* the fields a version carries back onto the record
SnapshotFields(version) ==
    [businessIdea |-> version.businessIdea,
     selectedSector |-> version.selectedSector,
     startupCost |-> version.startupCost,
     monthlyRevenue |-> version.monthlyRevenue,
     grossMargin |-> version.grossMargin,
     operatingExpenses |-> version.operatingExpenses,
     customAssumptions |-> version.customAssumptions,
     generatedModel |-> version.generatedModel,
     excelFilePath |-> version.excelFilePath]

\* a restore that discards the versions newer than the restored one
RestoreVersionDroppingNewer(modelId, versionId) ==
    /\ IF ~(KnownModel(modelId) /\ KnownVersion(modelId, versionId))
       THEN /\ response' = [op |-> "restore", code |-> 404, body |-> Undefined]
            /\ UNCHANGED <<financialModels, modelVersions>>
       ELSE LET updated == updateFinancialModel(modelId,
                               SnapshotFields(modelVersions[versionId]))
            IN /\ financialModels' = updated
               /\ modelVersions' = SubSeq(modelVersions, 1, versionId)
               /\ response' = [op |-> "restore", code |-> 200, body |-> Obj(updated[modelId])]
    /\ UNCHANGED <<runs, versionCalls, disk, vIn, vOut, scenarios>>

RestoreVersion(modelId, versionId) ==
    /\ IF ~(KnownModel(modelId) /\ KnownVersion(modelId, versionId))
       THEN /\ response' = [op |-> "restore", code |-> 404, body |-> Undefined]
            /\ UNCHANGED financialModels
       ELSE LET updated == updateFinancialModel(modelId,
                               SnapshotFields(modelVersions[versionId]))
            IN /\ financialModels' = updated
               /\ response' = [op |-> "restore", code |-> 200, body |-> Obj(updated[modelId])]
    /\ UNCHANGED <<modelVersions, runs, versionCalls, disk, vIn, vOut, scenarios>>

(***************************************************************************)
(* The scenario routes (routes.ts lines 205-296) and the scenario methods  *)
(* of the store (storage.ts lines 132-160).                                *)
(***************************************************************************)
ScenarioNumbers == {"startupCost", "monthlyRevenue", "grossMargin", "operatingExpenses"}

\* a request body of the scenario routes
MkScenarioBody(name, margin) ==
    [name |-> name, description |-> Undefined,
     startupCost |-> Undefined, monthlyRevenue |-> Undefined,
     grossMargin |-> margin, operatingExpenses |-> Undefined,
     customAssumptions |-> Undefined]

\* routes.ts lines 210-218 and 246-254: scenarioSchema.parse and
\* updateSchema.parse do not throw
ScenarioSchemaAccepts(body, nameRequired) ==
    /\ \/ body.name.k = "string" /\ body.name.v # ""
       \/ ~nameRequired /\ body.name.k = "undefined"
    /\ \A f \in ScenarioNumbers : body[f].k \in {"number", "undefined"}

\* validated.startupCost?.toString(): the decimal text of a number
NumericText(x) == IF x.k = "number" THEN [k |-> "numeric", v |-> x.v] ELSE Undefined

\* routes.ts lines 222-229 and 258-265: the values handed to the store
ScenarioValues(body) ==
    [name |-> body.name, description |-> body.description,
     startupCost |-> NumericText(body.startupCost),
     monthlyRevenue |-> NumericText(body.monthlyRevenue),
     grossMargin |-> NumericText(body.grossMargin),
     operatingExpenses |-> NumericText(body.operatingExpenses),
     customAssumptions |-> body.customAssumptions]

\* a column the statement gives no value takes NULL
Column(x) == IF x.k = "undefined" THEN Null ELSE x

\* storage.ts lines 132-135: the inserted row
NewScenarioRow(id, modelId, values) ==
    [id |-> id, modelId |-> modelId,
     name |-> Column(values.name), description |-> Column(values.description),
     startupCost |-> Column(values.startupCost),
     monthlyRevenue |-> Column(values.monthlyRevenue),
     grossMargin |-> Column(values.grossMargin),
     operatingExpenses |-> Column(values.operatingExpenses),
     customAssumptions |-> Column(values.customAssumptions)]

ScenarioRowsOf(id) == {row \in scenarios.rows : row.id = id}

\* storage.ts lines 145-152: SET only the values that are given
UpdatedScenarioRow(row, values) ==
    [f \in DOMAIN row |-> IF f \in DOMAIN values /\ values[f].k # "undefined"
                         THEN values[f]
                         ELSE row[f]]

\* a Create scenario that writes its margin onto the Model
CreateScenarioOntoModel(modelId, body) ==
    /\ IF ~ScenarioSchemaAccepts(body, TRUE)
       THEN /\ response' = [op |-> "create-scenario", id |-> modelId, code |-> 400,
                            body |-> Str("Invalid request data")]
            /\ UNCHANGED <<scenarios, financialModels>>
       ELSE LET row == NewScenarioRow(scenarios.issued + 1, modelId, ScenarioValues(body))
            IN /\ scenarios' = [issued |-> scenarios.issued + 1,
                                rows |-> scenarios.rows \cup {row}]
               /\ financialModels' =
                     IF KnownModel(modelId)
                     THEN updateFinancialModel(modelId, [grossMargin |-> body.grossMargin])
                     ELSE financialModels
               /\ response' = [op |-> "create-scenario", id |-> modelId, code |-> 200,
                               body |-> Obj(row)]
    /\ UNCHANGED <<modelVersions, runs, versionCalls, disk, vIn, vOut>>

\* POST /api/models/:id/scenarios (routes.ts lines 206-239)
CreateScenario(modelId, body) ==
    /\ IF ~ScenarioSchemaAccepts(body, TRUE)
       THEN /\ response' = [op |-> "create-scenario", id |-> modelId, code |-> 400,
                            body |-> Str("Invalid request data")]
            /\ UNCHANGED scenarios
       ELSE LET row == NewScenarioRow(scenarios.issued + 1, modelId, ScenarioValues(body))
            IN /\ scenarios' = [issued |-> scenarios.issued + 1,
                                rows |-> scenarios.rows \cup {row}]
               /\ response' = [op |-> "create-scenario", id |-> modelId, code |-> 200,
                               body |-> Obj(row)]
    /\ UNCHANGED <<financialModels, modelVersions, runs, versionCalls, disk, vIn, vOut>>

\* PUT /api/scenarios/:id (routes.ts lines 242-279)
UpdateScenario(id, body) ==
    /\ IF ~ScenarioSchemaAccepts(body, FALSE)
       THEN /\ response' = [op |-> "update-scenario", id |-> id, code |-> 400,
                            body |-> Str("Invalid request data")]
            /\ UNCHANGED scenarios
       ELSE IF ScenarioRowsOf(id) = {}
       THEN /\ response' = [op |-> "update-scenario", id |-> id, code |-> 404,
                            body |-> Str("Scenario not found")]
            /\ UNCHANGED scenarios
       ELSE LET updated == {UpdatedScenarioRow(row, ScenarioValues(body)) :
                               row \in ScenarioRowsOf(id)}
            IN /\ scenarios' = [scenarios EXCEPT
                                  !.rows = (@ \ ScenarioRowsOf(id)) \cup updated]
               /\ response' = [op |-> "update-scenario", id |-> id, code |-> 200,
                               body |-> Obj(CHOOSE row \in updated : TRUE)]
    /\ UNCHANGED <<financialModels, modelVersions, runs, versionCalls, disk, vIn, vOut>>

\* a delete that answers success whether or not a row was removed
DeleteScenarioAlwaysOk(id) ==
    /\ scenarios' = [scenarios EXCEPT !.rows = @ \ ScenarioRowsOf(id)]
    /\ response' = [op |-> "delete-scenario", id |-> id, code |-> 200,
                    body |-> Obj([success |-> TRUE])]
    /\ UNCHANGED <<financialModels, modelVersions, runs, versionCalls, disk, vIn, vOut>>

\* DELETE /api/scenarios/:id (routes.ts lines 282-296, storage.ts lines 154-160)
DeleteScenario(id) ==
    /\ scenarios' = [scenarios EXCEPT !.rows = @ \ ScenarioRowsOf(id)]
    /\ response' = IF ScenarioRowsOf(id) = {}
                   THEN [op |-> "delete-scenario", id |-> id, code |-> 404,
                         body |-> Str("Scenario not found")]
                   ELSE [op |-> "delete-scenario", id |-> id, code |-> 200,
                         body |-> Obj([success |-> TRUE])]
    /\ UNCHANGED <<financialModels, modelVersions, runs, versionCalls, disk, vIn, vOut>>

(***************************************************************************)
(* The generation service: Submit, Query and the runs.                     *)
(***************************************************************************)
Init ==
    /\ financialModels = << >>
    /\ modelVersions = << >>
    /\ runs = << >>
    /\ versionCalls = << >>
    /\ disk = {}
    /\ response = NoResponse
    /\ vIn = Null
    /\ vOut = NotCalled
    /\ scenarios = [issued |-> 0, rows |-> {}]

ModelIds == 1..MaxModels
\* a Submit starts one run, so runs are numbered like Models
RunIds == 1..MaxModels

RunStep ==
    \/ \E r \in RunIds, ok \in BOOLEAN : SectorReturn(r, ok)
    \/ \E r \in RunIds, text \in AnalystResponses : AnalystReturn(r, text)
    \/ \E r \in RunIds, resp \in ModelerResponses : ModelerReturn(r, resp)
    \/ \E r \in RunIds : ValidatorReturn(r)
    \/ \E r \in RunIds, ok \in BOOLEAN : ExcelReturn(r, ok)
    \/ \E r \in RunIds, ok \in BOOLEAN : DocxReturn(r, ok)
    \/ \E r \in RunIds, ok \in BOOLEAN : UpdateReturn(r, ok)

Next ==
    \/ \E body \in SubmitBodies, ok \in BOOLEAN :
          /\ Len(financialModels) < MaxModels
          /\ Submit(body, ok)
    \/ \E id \in ModelIds : Query(id)
    \/ RunStep

Spec == Init /\ [][Next]_vars

(***************************************************************************)
(* The service with Regenerate and the version store.                      *)
(***************************************************************************)
StoreModelIds == 1..StoreMaxModels
StoreRunIds == 1..StoreMaxRuns
VersionIds == 1..MaxVersions

StoreRunStep ==
    \/ \E r \in StoreRunIds, ok \in BOOLEAN : SectorReturn(r, ok)
    \/ \E r \in StoreRunIds, text \in AnalystResponses : AnalystReturn(r, text)
    \/ \E r \in StoreRunIds, resp \in ModelerResponses : ModelerReturn(r, resp)
    \/ \E r \in StoreRunIds : ValidatorReturn(r)
    \/ \E r \in StoreRunIds, ok \in BOOLEAN : ExcelReturn(r, ok)
    \/ \E r \in StoreRunIds, ok \in BOOLEAN : DocxReturn(r, ok)
    \/ \E r \in StoreRunIds, ok \in BOOLEAN : UpdateReturn(r, ok)

VersionStep ==
    \/ \E id \in StoreModelIds :
          /\ Len(versionCalls) + Len(modelVersions) < MaxVersions
          /\ CreateVersionRead(id, Undefined)
    \/ \E c \in VersionIds : CreateVersionCount(c)
    \/ \E c \in VersionIds : CreateVersionInsert(c)
    \/ \E id \in StoreModelIds, v \in VersionIds : RestoreVersion(id, v)

NextStore ==
    \/ \E body \in SubmitBodies, ok \in BOOLEAN :
          /\ Len(financialModels) < StoreMaxModels
          /\ Len(runs) < StoreMaxRuns
          /\ Submit(body, ok)
    \/ \E id \in StoreModelIds, body \in RegenerateBodies :
          /\ Len(runs) < StoreMaxRuns
          /\ Regenerate(id, body)
    \/ StoreRunStep
    \/ VersionStep

SpecStore == Init /\ [][NextStore]_vars

(***************************************************************************)
(* The version store under concurrent requests: Submit, Regenerate, the    *)
(* version endpoints, and runs that either complete or fail at the market  *)
(* analysis.                                                               *)
(***************************************************************************)
VersMaxModels == 2
VersMaxRuns == 2
VersMaxVersions == 2

VersModelIds == 1..VersMaxModels
VersRunIds == 1..VersMaxRuns
VersVersionIds == 1..VersMaxVersions

\* the body of the Submits of this specification: no sector selected
VersSubmitBodies == { MkBody(Undefined, 50000, 10000, 60, 5000) }

\* the artifact the model-construction call returns in its runs
VersArtifact ==
    MkModel(Arr(MkRevenue(12)), Arr(MkCashFlow(12)), Arr(MkAnnual(5)),
            MkKeyMetrics(Num(12), Num(12000000), Num(2400000), Num(500), Num(500)))

VersRunStep ==
    \/ \E r \in VersRunIds, text \in {"error", "analysis"} : AnalystReturn(r, text)
    \/ \E r \in VersRunIds : ModelerReturn(r, [kind |-> "json", value |-> VersArtifact])
    \/ \E r \in VersRunIds : ValidatorReturn(r)
    \/ \E r \in VersRunIds : ExcelReturn(r, TRUE)
    \/ \E r \in VersRunIds : DocxReturn(r, TRUE)
    \/ \E r \in VersRunIds : UpdateReturn(r, TRUE)

VersVersionStep ==
    \/ \E id \in VersModelIds :
          /\ Len(versionCalls) + Len(modelVersions) < VersMaxVersions
          /\ CreateVersionRead(id, Undefined)
    \/ \E c \in VersVersionIds : CreateVersionCount(c)
    \/ \E c \in VersVersionIds : CreateVersionInsert(c)
    \/ \E id \in VersModelIds, v \in VersVersionIds : RestoreVersion(id, v)

NextVersions ==
    \/ \E body \in VersSubmitBodies :
          /\ Len(financialModels) < VersMaxModels
          /\ Len(runs) < VersMaxRuns
          /\ Submit(body, TRUE)
    \/ \E id \in VersModelIds, body \in RegenerateBodies :
          /\ Len(runs) < VersMaxRuns
          /\ Regenerate(id, body)
    \/ VersRunStep
    \/ VersVersionStep

SpecVersions == Init /\ [][NextVersions]_vars

(***************************************************************************)
(* The same service when Create-version requests come one after another:   *)
(* a request is made only when the previous one has returned.              *)
(***************************************************************************)
SequentialVersionStep ==
    \/ \E id \in VersModelIds :
          /\ Len(versionCalls) = 0
          /\ Len(modelVersions) < VersMaxVersions
          /\ CreateVersionRead(id, Undefined)
    \/ \E c \in VersVersionIds : CreateVersionCount(c)
    \/ \E c \in VersVersionIds : CreateVersionInsert(c)
    \/ \E id \in VersModelIds, v \in VersVersionIds : RestoreVersion(id, v)

NextSequential ==
    \/ \E body \in VersSubmitBodies :
          /\ Len(financialModels) < VersMaxModels
          /\ Len(runs) < VersMaxRuns
          /\ Submit(body, TRUE)
    \/ \E id \in VersModelIds, body \in RegenerateBodies :
          /\ Len(runs) < VersMaxRuns
          /\ Regenerate(id, body)
    \/ VersRunStep
    \/ SequentialVersionStep

SpecSequential == Init /\ [][NextSequential]_vars

(***************************************************************************)
(* Two Submits whose runs the scheduler interleaves (routes.ts lines 48-59: *)
(* the run is started and not awaited).                                    *)
(***************************************************************************)
PairMaxModels == 2
PairModelIds == 1..PairMaxModels
\* a Submit starts one run, so runs are numbered like Models
PairRunIds == 1..PairMaxModels

PairRunStep ==
    \/ \E r \in PairRunIds, ok \in BOOLEAN : SectorReturn(r, ok)
    \/ \E r \in PairRunIds, text \in AnalystResponses : AnalystReturn(r, text)
    \/ \E r \in PairRunIds, resp \in ModelerResponses : ModelerReturn(r, resp)
    \/ \E r \in PairRunIds : ValidatorReturn(r)
    \/ \E r \in PairRunIds, ok \in BOOLEAN : ExcelReturn(r, ok)
    \/ \E r \in PairRunIds, ok \in BOOLEAN : DocxReturn(r, ok)
    \/ \E r \in PairRunIds, ok \in BOOLEAN : UpdateReturn(r, ok)

NextPair ==
    \/ \E body \in SubmitBodies, ok \in BOOLEAN :
          /\ Len(financialModels) < PairMaxModels
          /\ Submit(body, ok)
    \/ PairRunStep

SpecPair == Init /\ [][NextPair]_vars

(***************************************************************************)
(* The download endpoints over a store whose files can disappear.          *)
(***************************************************************************)
DownloadMaxModels == 1
\* the ids a request can name: the stored ones and one more
DownloadRequestIds == 1..(DownloadMaxModels + 1)

\* a Submit starts one run, so runs are numbered like Models
DownloadRunIds == 1..DownloadMaxModels

DownloadRunStep ==
    \/ \E r \in DownloadRunIds, text \in {"error", "analysis"} : AnalystReturn(r, text)
    \/ \E r \in DownloadRunIds : ModelerReturn(r, [kind |-> "json", value |-> VersArtifact])
    \/ \E r \in DownloadRunIds : ValidatorReturn(r)
    \/ \E r \in DownloadRunIds, ok \in BOOLEAN : ExcelReturn(r, ok)
    \/ \E r \in DownloadRunIds, ok \in BOOLEAN : DocxReturn(r, ok)
    \/ \E r \in DownloadRunIds : UpdateReturn(r, TRUE)

NextDownload ==
    \/ \E body \in VersSubmitBodies :
          /\ Len(financialModels) < DownloadMaxModels
          /\ Submit(body, TRUE)
    \/ DownloadRunStep
    \/ \E op \in DOMAIN DownloadColumn, id \in DownloadRequestIds : Download(op, id)
    \/ \E file \in disk : RemoveFile(file)

SpecDownload == Init /\ [][NextDownload]_vars

(***************************************************************************)
(* Submit with request bodies the form's schema would refuse.              *)
(***************************************************************************)
SubmitMaxModels == 1
\* a Submit starts one run, so runs are numbered like Models
SubmitRunIds == 1..SubmitMaxModels

\* a valid body, one with gross margin 150, one without startupCost and one
\* without businessIdea
SubmitRequestBodies ==
    { MkBody(Undefined, 50000, 10000, 60, 5000),
      MkBody(Str("Retail"), 50000, 10000, 150, 5000),
      [MkBody(Undefined, 50000, 10000, 60, 5000) EXCEPT !.startupCost = Undefined],
      [MkBody(Undefined, 50000, 10000, 60, 5000) EXCEPT !.businessIdea = Undefined] }

\* the table's NOT NULL column among those the body supplies: business_idea
InsertAccepts(body) == body.businessIdea.k = "string"

SubmitRunStep ==
    \/ \E r \in SubmitRunIds, ok \in BOOLEAN : SectorReturn(r, ok)
    \/ \E r \in SubmitRunIds, text \in AnalystResponses : AnalystReturn(r, text)
    \/ \E r \in SubmitRunIds, resp \in ModelerResponses : ModelerReturn(r, resp)
    \/ \E r \in SubmitRunIds : ValidatorReturn(r)
    \/ \E r \in SubmitRunIds, ok \in BOOLEAN : ExcelReturn(r, ok)
    \/ \E r \in SubmitRunIds, ok \in BOOLEAN : DocxReturn(r, ok)
    \/ \E r \in SubmitRunIds, ok \in BOOLEAN : UpdateReturn(r, ok)

NextSubmit ==
    \/ \E body \in SubmitRequestBodies, ok \in BOOLEAN :
          /\ Len(financialModels) < SubmitMaxModels
          /\ ok => InsertAccepts(body)
          /\ Submit(body, ok)
    \/ SubmitRunStep

SpecSubmit == Init /\ [][NextSubmit]_vars

(***************************************************************************)
(* The scenario routes beside a Model, its run and its versions.           *)
(***************************************************************************)
ScenMaxModels == 1
ScenMaxScenarios == 2
ScenMaxVersions == 1
ScenModelIds == 1..ScenMaxModels
\* a Submit starts one run, so runs are numbered like Models
ScenRunIds == 1..ScenMaxModels
ScenVersionIds == 1..ScenMaxVersions
\* the ids a scenario request can name
ScenarioIds == 1..ScenMaxScenarios

\* bodies of POST /api/models/:id/scenarios: two the schema accepts (gross
\* margin 60 and 150) and one without a name
CreateScenarioBodies ==
    { MkScenarioBody(Str("base"), Num(60)),
      MkScenarioBody(Str("wild"), Num(150)),
      MkScenarioBody(Str(""), Num(60)) }

\* bodies of PUT /api/scenarios/:id: a new margin, and an empty name
UpdateScenarioBodies ==
    { MkScenarioBody(Undefined, Num(40)),
      MkScenarioBody(Str(""), Undefined) }

ScenRunStep ==
    \/ \E r \in ScenRunIds, text \in {"error", "analysis"} : AnalystReturn(r, text)
    \/ \E r \in ScenRunIds : ModelerReturn(r, [kind |-> "json", value |-> VersArtifact])
    \/ \E r \in ScenRunIds : ValidatorReturn(r)
    \/ \E r \in ScenRunIds : ExcelReturn(r, TRUE)
    \/ \E r \in ScenRunIds : DocxReturn(r, TRUE)
    \/ \E r \in ScenRunIds : UpdateReturn(r, TRUE)

ScenVersionStep ==
    \/ \E id \in ScenModelIds :
          /\ Len(versionCalls) + Len(modelVersions) < ScenMaxVersions
          /\ CreateVersionRead(id, Undefined)
    \/ \E c \in ScenVersionIds : CreateVersionCount(c)
    \/ \E c \in ScenVersionIds : CreateVersionInsert(c)

ScenarioStep ==
    \/ \E id \in ScenModelIds, body \in CreateScenarioBodies :
          /\ scenarios.issued < ScenMaxScenarios
          /\ CreateScenario(id, body)
    \/ \E id \in ScenarioIds, body \in UpdateScenarioBodies : UpdateScenario(id, body)
    \/ \E id \in ScenarioIds : DeleteScenario(id)

NextScenarios ==
    \/ \E body \in VersSubmitBodies :
          /\ Len(financialModels) < ScenMaxModels
          /\ Submit(body, TRUE)
    \/ ScenRunStep
    \/ ScenVersionStep
    \/ ScenarioStep

SpecScenarios == Init /\ [][NextScenarios]_vars

(***************************************************************************)
(* The generation service when every call a run awaits returns: each run   *)
(* keeps taking steps while it awaits a call (the call returns a result or *)
(* throws; which one is not decided by the scheduler).                     *)
(***************************************************************************)
RunStepOf(r) ==
    \/ \E ok \in BOOLEAN : SectorReturn(r, ok)
    \/ \E text \in AnalystResponses : AnalystReturn(r, text)
    \/ \E resp \in ModelerResponses : ModelerReturn(r, resp)
    \/ ValidatorReturn(r)
    \/ \E ok \in BOOLEAN : ExcelReturn(r, ok)
    \/ \E ok \in BOOLEAN : DocxReturn(r, ok)
    \/ \E ok \in BOOLEAN : UpdateReturn(r, ok)

NextFair ==
    \/ \E body \in SubmitBodies, ok \in BOOLEAN :
          /\ Len(financialModels) < MaxModels
          /\ Submit(body, ok)
    \/ \E id \in ModelIds : Query(id)
    \/ \E r \in RunIds : RunStepOf(r)

SpecFair == Init /\ [][NextFair]_vars /\ \A r \in RunIds : WF_vars(RunStepOf(r))

(***************************************************************************)
(* Properties.                                                             *)
(***************************************************************************)
Models == 1..Len(financialModels)
Runs == 1..Len(runs)
RunsOf(id) == {r \in Runs : runs[r].modelId = id}
CompletedModels == {id \in Models : financialModels[id].status = "completed"}

IsNull(x) == x.k = "null"
NothingGenerated(m) ==
    IsNull(m.generatedModel) /\ IsNull(m.excelFilePath) /\ IsNull(m.pdfFilePath)
EverythingGenerated(m) ==
    ~IsNull(m.generatedModel) /\ ~IsNull(m.excelFilePath) /\ ~IsNull(m.pdfFilePath)

ErrorPath == {"catchUpdate", "handlerUpdate", "done"}

\* C1: a Submit that succeeds answers with the id of the record it created
\* and status "processing", the record is stored with that status, and while
\* the run started for a Model has not finished the stored status is
\* processing.
C1_SubmitReturnsProcessing ==
    /\ (response.op = "generate-model" /\ response.code = 200) =>
          /\ response.body.v.id \in Models
          /\ response.body.v.status = "processing"
          /\ financialModels[response.body.v.id].status = "processing"
    /\ \A r \in Runs :
          runs[r].pc # "done" => financialModels[runs[r].modelId].status = "processing"

\* Submit has answered and the run it started is still in flight
C1_Witness ==
    /\ response.op = "generate-model"
    /\ response.code = 200
    /\ \E r \in Runs : /\ runs[r].modelId = response.body.v.id
                       /\ runs[r].pc # "done"
                       /\ financialModels[runs[r].modelId].status = "processing"

\* the record's artifact and paths are all set when it is completed and all
\* null when it is not
ArtifactIffCompleted(m) ==
    IF m.status = "completed" THEN EverythingGenerated(m) ELSE NothingGenerated(m)

C3_ArrayLengths ==
    \A id \in CompletedModels :
        LET a == financialModels[id].generatedModel.v
        IN /\ Len(a.revenueProjections.v) = 12
           /\ Len(a.cashFlow.v) = 12
           /\ Len(a.annualProjections.v) \in {0, 5}

\* a completed Model whose artifact kept the longer revenue array
C3_Witness ==
    \E id \in CompletedModels :
        Len(financialModels[id].generatedModel.v.revenueProjections.v) > 12

\* C4 as stated: the break-even month of every completed Model's artifact
\* lies in [1, 24].
C4_BreakEvenInRange ==
    \A id \in CompletedModels :
        LET b == financialModels[id].generatedModel.v.keyMetrics.v.breakEvenMonth
        IN b.k = "number" /\ b.v >= 1 /\ b.v <= 24

\* a completed Model whose annual projections could not be reconstructed and
\* whose break-even month is above 24
C4_Witness ==
    \E id \in CompletedModels :
        LET a == financialModels[id].generatedModel.v
        IN /\ Len(a.annualProjections.v) = 0
           /\ a.keyMetrics.v.breakEvenMonth.k = "number"
           /\ a.keyMetrics.v.breakEvenMonth.v > 24

\* C5 as stated: runValidatorAgent returns an artifact and raises no error
\* for every artifact object handed to it.
C5_ValidatorNeverFails ==
    (vIn.k = "object" /\ vOut.calls = 1) => ~vOut.threw

\* the validator was handed an empty revenue array and threw
C5_Witness ==
    /\ vIn.k = "object"
    /\ vIn.v.revenueProjections.k = "array"
    /\ Len(vIn.v.revenueProjections.v) = 0
    /\ vOut.calls = 1
    /\ vOut.threw

GenerationStages == {"runDataAnalystAgent", "runFinancialModelerAgent"}
Renderers == {"generateExcelFile", "generateDocxFile"}
RowOf(run) == financialModels[run.modelId]

\* the run is aborted: it is on its error path, where no stage and no
\* renderer is called, and it has recorded nothing on its Model
Aborted(run) ==
    /\ run.pc \in ErrorPath
    /\ NothingGenerated(RowOf(run))
    /\ run.pc # "done" => RowOf(run).status = "processing"

\* C6 as stated: once the market-analysis call or the model-construction call
\* has failed, the run is aborted, no renderer has written a file, and when
\* the run is over the Model's status is failed.
C6_GenerationFailureFails ==
    \A r \in Runs :
        runs[r].failedAt \in GenerationStages =>
            /\ Aborted(runs[r])
            /\ ExcelPath(runs[r].modelId) \notin disk
            /\ DocxPath(runs[r].modelId) \notin disk
            /\ runs[r].pc = "done" => RowOf(runs[r]).status = "failed"

\* C6: once the market-analysis call or the model-construction call has
\* failed, the run is aborted and no renderer has written a file; when the
\* run is over the Model's status is failed if the store accepted one of the
\* run's two status updates, and is still processing if it rejected both.
C6_GenerationFailureAborts ==
    \A r \in Runs :
        runs[r].failedAt \in GenerationStages =>
            /\ Aborted(runs[r])
            /\ ExcelPath(runs[r].modelId) \notin disk
            /\ DocxPath(runs[r].modelId) \notin disk
            /\ runs[r].pc = "done" =>
                  \/ runs[r].writes = <<"failed">> /\ RowOf(runs[r]).status = "failed"
                  \/ runs[r].writes = << >> /\ RowOf(runs[r]).status = "processing"

\* a run that ended after the model-construction call failed, status failed
C6_Witness ==
    \E r \in Runs : /\ runs[r].failedAt = "runFinancialModelerAgent"
                    /\ runs[r].pc = "done"
                    /\ RowOf(runs[r]).status = "failed"

\* what a failed render leaves on disk: the spreadsheet when the document
\* render failed, nothing when the spreadsheet render failed
RenderLeftovers(run) ==
    IF run.failedAt = "generateDocxFile"
    THEN ExcelPath(run.modelId) \in disk /\ DocxPath(run.modelId) \notin disk
    ELSE ExcelPath(run.modelId) \notin disk /\ DocxPath(run.modelId) \notin disk

InOrder(pc, next) ==
    \/ \E i \in 1..(Len(Stages) - 1) : pc = Stages[i] /\ next = Stages[i + 1]
    \/ pc = "updateFinancialModel" /\ next = "done"
    \/ pc \in {Stages[i] : i \in 1..Len(Stages)} /\ next = "catchUpdate"
    \/ pc = "catchUpdate" /\ next \in {"handlerUpdate", "done"}
    \/ pc = "handlerUpdate" /\ next = "done"

\* the call issued by a step receives what the call that returned produced
ConsumesPrevious(old, new) ==
    CASE old.pc = "runDataAnalystAgent" /\ new.pc = "runFinancialModelerAgent" ->
            new.arg.k = "string"
      [] old.pc = "runFinancialModelerAgent" /\ new.pc = "runValidatorAgent" ->
            new.arg \in PipelineArtifacts
      [] old.pc = "runValidatorAgent" /\ new.pc = "generateExcelFile" ->
            new.arg = runValidatorAgent(old.arg).model
      [] old.pc = "generateExcelFile" /\ new.pc = "generateDocxFile" ->
            new.arg = old.arg /\ ExcelPath(old.modelId) \in disk'
      [] old.pc = "generateDocxFile" /\ new.pc = "updateFinancialModel" ->
            /\ new.arg.v.generatedModel = old.arg
            /\ new.arg.v.excelFilePath = ExcelPath(old.modelId)
            /\ new.arg.v.pdfFilePath = DocxPath(old.modelId)
            /\ new.arg.v.status = "completed"
            /\ DocxPath(old.modelId) \in disk'
      [] OTHER -> TRUE

\* C8: a run starts at the sector lookup or the market analysis; whenever
\* the call it awaits changes, the new call is the next one of the order
\* analysis, construction, validation, spreadsheet, document, final update
\* (or the run's error path), and it receives the output of the call that
\* returned; a run awaits one call at a time.
C8_StageOrder ==
    [][ \A r \in 1..Len(runs') :
          IF r \in Runs
          THEN runs'[r].pc # runs[r].pc =>
                  /\ InOrder(runs[r].pc, runs'[r].pc)
                  /\ ConsumesPrevious(runs[r], runs'[r])
          ELSE runs'[r].pc \in {"getSectorByName", "runDataAnalystAgent"} ]_vars

\* a run that went through every step and awaits its final update
C8_Witness ==
    \E r \in Runs : /\ runs[r].pc = "updateFinancialModel"
                    /\ runs[r].validated
                    /\ ExcelPath(runs[r].modelId) \in disk
                    /\ DocxPath(runs[r].modelId) \in disk

\* the state of a run in the run state machine, as a rank
PhaseRank(run) ==
    CASE run.failedAt # "none" -> 7                          \* failed
      [] run.pc = "getSectorByName" -> 1                     \* created
      [] run.pc = "runDataAnalystAgent" -> 2                 \* analyzing
      [] run.pc = "runFinancialModelerAgent" -> 3            \* modeling
      [] run.pc = "runValidatorAgent" -> 4                   \* validating
      [] run.pc = "done" -> 6                                \* done
      [] OTHER -> 5                                          \* rendering, final update

PhaseStep(old, new) ==
    IF PhaseRank(old) >= 6 THEN PhaseRank(new) = PhaseRank(old)
    ELSE PhaseRank(new) \in {PhaseRank(old), PhaseRank(old) + 1, 7}

\* a run writes a status only as its last step, never two, and the status a
\* finished run wrote is completed when it met no error and failed otherwise
OneTerminalWrite(run) ==
    /\ Len(run.writes) <= 1
    /\ run.writes # << >> => run.pc = "done"
    /\ run.writes = <<"completed">> => run.failedAt = "none" /\ RowOf(run).status = "completed"
    /\ run.writes = <<"failed">> => run.failedAt # "none" /\ RowOf(run).status = "failed"
    /\ run.failedAt # "none" => run.pc \in ErrorPath

AllOneTerminalWrite == \A r \in Runs : OneTerminalWrite(runs[r])
AllFinishedWroteOnce == \A r \in Runs : runs[r].pc = "done" => Len(runs[r].writes) = 1
AllFinishedWroteOrRejected ==
    \A r \in Runs :
       (runs[r].pc = "done" /\ runs[r].writes = << >>) =>
           runs[r].failedAt # "none" /\ RowOf(runs[r]).status = "processing"

\* C9 as stated: a run moves created, analyzing, modeling, validating, done,
\* or to failed on its first error, and a finished run has made exactly one
\* terminal write of its Model's status.
C9_ExactlyOneTerminalWrite ==
    [][ /\ \A r \in Runs : PhaseStep(runs[r], runs'[r])
        /\ AllOneTerminalWrite'
        /\ AllFinishedWroteOnce' ]_vars

\* C9: a run moves created, analyzing, modeling, validating, (rendering,)
\* done, or to failed on its first error and stays there; it writes its
\* Model's status at most once, as its last step: completed only if it met no
\* error, failed only if it met one, never both; a finished run that wrote
\* nothing is a failed run whose two status updates the store rejected.
C9_AtMostOneTerminalWrite ==
    [][ /\ \A r \in Runs : PhaseStep(runs[r], runs'[r])
        /\ AllOneTerminalWrite'
        /\ AllFinishedWroteOrRejected' ]_vars

\* a run whose final update was rejected and that then wrote failed
C9_Witness ==
    \E r \in Runs : /\ runs[r].failedAt = "updateFinancialModel"
                    /\ runs[r].pc = "done"
                    /\ runs[r].writes = <<"failed">>

\* the artifacts the validator returns in the pipeline runs
ValidatedArtifacts ==
    { runValidatorAgent(a).model : a \in {b \in PipelineArtifacts : ~runValidatorAgent(b).threw} }

\* what a record can show: one of the three statuses, no artifact or path
\* while a run on it is unfinished, and no artifact but a validated one
Observable(m) ==
    /\ m.status \in {"processing", "completed", "failed"}
    /\ (\E r \in RunsOf(m.id) : runs[r].pc # "done") => NothingGenerated(m)
    /\ m.generatedModel.k \in {"null", "object"}
    /\ m.generatedModel.k = "object" => m.generatedModel \in ValidatedArtifacts
    /\ m.excelFilePath.k \in {"null", "path"}
    /\ m.pdfFilePath.k \in {"null", "path"}

AllObservable ==
    /\ \A id \in Models : Observable(financialModels[id])
    /\ (response.op = "get-model" /\ response.code = 200) =>
          /\ response.body.v.id \in Models
          /\ response.body = Obj(financialModels[response.body.v.id])

\* C10: a record changes only by the one update that ends a run on it, so a
\* run that is not finished has written nothing; every record, and so every
\* answer of Query, shows status processing, completed or failed, no artifact
\* or path while its run is unfinished, and no artifact but a validated one.
C10_NothingPersistedBetweenStages ==
    [][ /\ \A id \in Models :
             financialModels'[id] # financialModels[id] =>
                \E r \in RunsOf(id) :
                    /\ runs[r].pc \in {"updateFinancialModel", "catchUpdate", "handlerUpdate"}
                    /\ runs'[r].pc = "done"
                    /\ Len(runs[r].writes) = 0
        /\ AllObservable' ]_vars

\* Query answers with a processing record while its run, holding a validated
\* artifact and a written spreadsheet, awaits the document render
C10_Witness ==
    /\ response.op = "get-model"
    /\ response.code = 200
    /\ response.body.v.status = "processing"
    /\ IsNull(response.body.v.generatedModel)
    /\ \E r \in RunsOf(response.body.v.id) :
          runs[r].pc = "generateDocxFile" /\ runs[r].validated

Versions == 1..Len(modelVersions)
VersionsOf(id) == {i \in Versions : modelVersions[i].modelId = id}
\* the rank of version i among the versions of its Model, in insertion order
VersionIndex(i) == Cardinality({j \in VersionsOf(modelVersions[i].modelId) : j <= i})

\* C11: a Create-version call numbers its version from the count it read, not
\* from the count at its insert: the k-th version inserted for a Model has a
\* number in 1..k, and a call awaiting its insert carries a number of at most
\* the current count + 1; nothing makes the numbers of one Model distinct.
C11_NumberFromCountRead ==
    /\ \A i \in Versions : modelVersions[i].versionNumber \in 1..VersionIndex(i)
    /\ \A c \in 1..Len(versionCalls) :
          versionCalls[c].pc = "insert" =>
             versionCalls[c].versionNumber
                \in 1..(Cardinality(VersionsOf(versionCalls[c].modelId)) + 1)

\* two versions of one Model carry the same version number
C11_Witness ==
    \E i, j \in Versions : /\ i < j
                           /\ modelVersions[i].modelId = modelVersions[j].modelId
                           /\ modelVersions[i].versionNumber = modelVersions[j].versionNumber

\* the fields of a Model that a version snapshots
SnapshotNames ==
    {"businessIdea", "selectedSector", "startupCost", "monthlyRevenue", "grossMargin",
     "operatingExpenses", "customAssumptions", "generatedModel", "excelFilePath"}

SameSnapshot(a, b) == \A f \in SnapshotNames : a[f] = b[f]

\* C12: when Create-version requests on the service come one after another,
\* a request reads the Model as it is when the request is made, and the
\* version it inserts is the k-th of its Model, carries number k, and holds
\* the input parameters, artifact and spreadsheet path of the Model it read.
C12_SequentialNumbers ==
    [][ /\ Len(versionCalls') > Len(versionCalls) =>
             LET call == versionCalls'[Len(versionCalls')]
             IN call.model = financialModels[call.modelId]
        /\ Len(modelVersions') > Len(modelVersions) =>
             LET i == Len(modelVersions')
                 new == modelVersions'[i]
                 call == CHOOSE c \in {versionCalls[x] : x \in 1..Len(versionCalls)} :
                            c.pc = "insert"
             IN /\ new.modelId = call.modelId
                /\ new.versionNumber =
                      Cardinality({j \in 1..i : modelVersions'[j].modelId = new.modelId})
                /\ SameSnapshot(new, call.model) ]_vars

\* two Models with one version each, both numbered 1, one of them holding
\* the artifact of its completed Model
C12_Witness ==
    /\ \E i, j \in Versions : /\ modelVersions[i].modelId # modelVersions[j].modelId
                              /\ modelVersions[i].versionNumber = 1
                              /\ modelVersions[j].versionNumber = 1
                              /\ ~IsNull(modelVersions[j].generatedModel)
    /\ Len(versionCalls) = 0

\* C13: a Create version naming a Model id that does not exist is answered
\* with an error and changes neither the Models, the versions, the calls in
\* flight, the runs nor the files; a call goes on to its select and insert
\* only for an existing Model, so every version belongs to an existing Model.
C13_UnknownModelRejected ==
    [][ /\ (response'.op = "create-version" /\ response'.code >= 400) =>
              UNCHANGED <<financialModels, modelVersions, versionCalls, runs, disk>>
        /\ Len(versionCalls') > Len(versionCalls) =>
              versionCalls'[Len(versionCalls')].modelId \in Models
        /\ \A i \in 1..Len(modelVersions') :
              modelVersions'[i].modelId \in 1..Len(financialModels') ]_vars

\* a Create version on an unknown id was refused while a Model and a version
\* of it exist
C13_Witness ==
    /\ response.op = "create-version"
    /\ response.code >= 400
    /\ Len(financialModels) = 1
    /\ Len(modelVersions) >= 1

C15_RestoreKeepsVersions ==
    [][ response'.op = "restore" =>
          /\ UNCHANGED <<modelVersions, versionCalls, runs, disk>>
          /\ response'.code \in {200, 404}
          /\ response'.code = 404 => UNCHANGED financialModels
          /\ response'.code = 200 =>
                /\ response'.body.v.id \in Models
                /\ \E v \in VersionsOf(response'.body.v.id) :
                      SameSnapshot(response'.body.v, modelVersions[v])
       ]_vars

\* the older of two versions of one Model has been restored, and both versions
\* are still there
C15_Witness ==
    /\ response.op = "restore"
    /\ response.code = 200
    /\ Len(modelVersions) = 2
    /\ modelVersions[1].modelId = modelVersions[2].modelId
    /\ SameSnapshot(response.body.v, modelVersions[1])
    /\ ~SameSnapshot(response.body.v, modelVersions[2])

UpdateAccepted(r) == Len(runs'[r].writes) > Len(runs[r].writes)

\* a run started after run r on the same Model: r was still running when it
\* started whenever r is not done
YoungerRunsOf(r) == {q \in Runs : q > r /\ runs[q].modelId = runs[r].modelId}

SteppingRuns == {r \in Runs : runs'[r] # runs[r]}

Servable(id, column) ==
    /\ id \in Models
    /\ ~IsNull(financialModels[id][column])
    /\ financialModels[id][column] \in disk

\* C19: a download answers 200 with the recorded path exactly when the Model
\* is known, the path of that file is recorded and the file is on disk, and
\* answers 404 in every other case (unknown id, no recorded path, file gone).
C19_DownloadNeedsRecordAndFile ==
    response.op \in DOMAIN DownloadColumn =>
        LET column == DownloadColumn[response.op]
        IN /\ response.code \in {200, 404}
           /\ response.code = 200 <=> Servable(response.id, column)
           /\ response.code = 200 => response.body = financialModels[response.id][column]

\* the document's path is recorded on a completed Model, the file has been
\* removed, and the download answered not-found
C19_Witness ==
    /\ response.op = "downloadDocx"
    /\ response.code = 404
    /\ response.id \in Models
    /\ financialModels[response.id].status = "completed"
    /\ financialModels[response.id].pdfFilePath = DocxPath(response.id)
    /\ DocxPath(response.id) \notin disk
    /\ ExcelPath(response.id) \in disk

\* financialAssumptionsSchema, and the business idea being there
ValidSubmit(m) ==
    /\ m.businessIdea.k = "string"
    /\ \A f \in {"startupCost", "monthlyRevenue", "grossMargin", "operatingExpenses"} :
          m[f].k = "number" /\ m[f].v >= 0
    /\ m.grossMargin.v <= 100

\* C20: every Model record, and so every run, comes from a Submit whose body
\* has the required fields and a gross margin within 0..100: a Submit of any
\* other body creates no record and starts no run.
C20_InvalidSubmitRejected ==
    /\ \A id \in Models : ValidSubmit(financialModels[id])
    /\ \A r \in Runs : ValidSubmit(financialModels[runs[r].modelId])

\* a Submit with gross margin 150 was accepted and its run completed
C20_Witness ==
    \E id \in Models :
        /\ financialModels[id].grossMargin = Num(150)
        /\ financialModels[id].status = "completed"
        /\ \E r \in RunsOf(id) : runs[r].writes = <<"completed">>

\* C21: no stored Scenario carries a gross margin outside 0..100, and a Create
\* scenario answered with success did not carry one.
C21_ScenarioMarginBounded ==
    /\ \A row \in scenarios.rows :
          row.grossMargin.k = "numeric" => row.grossMargin.v \in 0..100
    /\ (response.op = "create-scenario" /\ response.code = 200) =>
          (response.body.v.grossMargin.k = "numeric" =>
              response.body.v.grossMargin.v \in 0..100)

\* a Create scenario with gross margin 150 was answered with success and the
\* Scenario is stored
C21_Witness ==
    /\ response.op = "create-scenario"
    /\ response.code = 200
    /\ response.body.v.grossMargin = [k |-> "numeric", v |-> 150]
    /\ response.body.v \in scenarios.rows

ScenarioOps == {"create-scenario", "update-scenario", "delete-scenario"}

\* C23: a Create, Update or Delete scenario step, whatever it answers, leaves
\* every Model record, every version, every pending Create version call, every
\* run and every file as they were.
C23_ScenariosInert ==
    [][ response'.op \in ScenarioOps =>
          UNCHANGED <<financialModels, modelVersions, versionCalls, runs, disk>>
      ]_vars

\* a Scenario of a Model that has a version and a run in progress was updated
C23_Witness ==
    /\ response.op = "update-scenario"
    /\ response.code = 200
    /\ response.body.v.modelId \in Models
    /\ response.body.v.grossMargin = [k |-> "numeric", v |-> 40]
    /\ financialModels[response.body.v.modelId].status = "processing"
    /\ financialModels[response.body.v.modelId].grossMargin = Num(60)
    /\ Len(modelVersions) = 1
    /\ \E r \in Runs : runs[r].pc = "generateExcelFile"

\* the validator returned on its first call
ValidatedOnce == vOut.calls = 1 /\ ~vOut.threw

\* C24: when the validator returns on an artifact whose monthly revenue array
\* has n entries, 1 <= n < 12, the result has 12 entries, the first n are the
\* ones given, and each later entry has its position as month and revenue,
\* costs and gross profit 1.05, 1.03 and 1.07 times those of the entry before
\* it; a 10-entry array of (1000, 400, 600) gets (1050, 412, 642) as 11th.
C24_RevenuePadding ==
    (ValidatedOnce /\ Len(vIn.v.revenueProjections.v) \in 1..11) =>
        LET given == vIn.v.revenueProjections.v
            out == vOut.model.v.revenueProjections.v
        IN /\ Len(out) = 12
           /\ \A i \in 1..Len(given) : out[i] = given[i]
           /\ \A i \in (Len(given) + 1)..12 :
                 /\ out[i].month = i
                 /\ out[i].revenue = Times(out[i - 1].revenue, 105)
                 /\ out[i].costs = Times(out[i - 1].costs, 103)
                 /\ out[i].grossProfit = Times(out[i - 1].grossProfit, 107)
           /\ Len(given) = 10 =>
                 /\ out[11].revenue = 105000
                 /\ out[11].costs = 41200
                 /\ out[11].grossProfit = 64200

\* a 10-entry array was padded: the 12th entry is derived from the 11th
C24_Witness ==
    /\ ValidatedOnce
    /\ Len(vIn.v.revenueProjections.v) = 10
    /\ vOut.model.v.revenueProjections.v[11].revenue = 105000
    /\ vOut.model.v.revenueProjections.v[12].revenue = 110250
    /\ vOut.model.v.revenueProjections.v[12].costs = 42436
    /\ vOut.model.v.revenueProjections.v[12].month = 12

\* C25: when the validator returns on an artifact whose cash-flow array has n
\* entries, 1 <= n < 12, the result has 12 entries, the first n are the ones
\* given, and each later entry has inflow, outflow and net cash flow 1.05,
\* 1.03 and 1.07 times those of the entry before it and cumulative cash equal
\* to the previous entry's cumulative cash plus its own net cash flow.
C25_CashFlowPadding ==
    (ValidatedOnce /\ Len(vIn.v.cashFlow.v) \in 1..11) =>
        LET given == vIn.v.cashFlow.v
            out == vOut.model.v.cashFlow.v
        IN /\ Len(out) = 12
           /\ \A i \in 1..Len(given) : out[i] = given[i]
           /\ \A i \in (Len(given) + 1)..12 :
                 /\ out[i].month = i
                 /\ out[i].inflow = Times(out[i - 1].inflow, 105)
                 /\ out[i].outflow = Times(out[i - 1].outflow, 103)
                 /\ out[i].netCashFlow = Times(out[i - 1].netCashFlow, 107)
                 /\ out[i].cumulativeCash = out[i - 1].cumulativeCash + out[i].netCashFlow

\* a 10-entry cash flow was padded: the cumulative cash of the 12th entry is
\* that of the 10th plus the two synthesized net cash flows
C25_Witness ==
    /\ ValidatedOnce
    /\ Len(vIn.v.cashFlow.v) = 10
    /\ vOut.model.v.cashFlow.v[11].netCashFlow = 64200
    /\ vOut.model.v.cashFlow.v[12].netCashFlow = 68694
    /\ vOut.model.v.cashFlow.v[12].cumulativeCash = 600000 + 64200 + 68694

\* the annual array of the artifact is absent or not of length 5
AnnualGiven(m) == m.annualProjections.k = "array" /\ Len(m.annualProjections.v) = 5

\* year-1 revenue and net profit are finite numbers, revenue >= net profit
Year1Usable(m) ==
    /\ m.keyMetrics.k = "object"
    /\ m.keyMetrics.v.year1TotalRevenue.k = "number"
    /\ m.keyMetrics.v.year1NetProfit.k = "number"
    /\ m.keyMetrics.v.year1TotalRevenue.v >= m.keyMetrics.v.year1NetProfit.v

RevenueFactor == <<100, 140, 190, 250, 320>>
ExpensesFactor == <<100, 130, 160, 200, 250>>

\* C26: when the validator returns on an artifact whose annual array is absent
\* or not of length 5 and whose year-1 revenue R and net profit P are finite
\* with R >= P, the result's annual array has 5 entries: year 1 is (R, R - P,
\* net P), and year y of 2..5 has revenue R x 1.4, 1.9, 2.5, 3.2, expenses
\* (R - P) x 1.3, 1.6, 2.0, 2.5 and gross profit = net profit = revenue -
\* expenses; R = 120000 and P = 24000 give year 2 (168000, 124800).
C26_AnnualReconstruction ==
    (ValidatedOnce /\ ~AnnualGiven(vIn.v) /\ Year1Usable(vIn.v)) =>
        LET R == vIn.v.keyMetrics.v.year1TotalRevenue.v
            P == vIn.v.keyMetrics.v.year1NetProfit.v
            out == vOut.model.v.annualProjections.v
        IN /\ Len(out) = 5
           /\ out[1] = [year |-> 1, revenue |-> R, expenses |-> R - P,
                        grossProfit |-> P, netProfit |-> P]
           /\ \A y \in 2..5 :
                 /\ out[y].year = y
                 /\ out[y].revenue = Times(R, RevenueFactor[y])
                 /\ out[y].expenses = Times(R - P, ExpensesFactor[y])
                 /\ out[y].grossProfit = out[y].revenue - out[y].expenses
                 /\ out[y].netProfit = out[y].revenue - out[y].expenses
           /\ (R = 12000000 /\ P = 2400000) =>
                 out[2].revenue = 16800000 /\ out[2].expenses = 12480000

\* a 3-entry annual array was replaced by the reconstruction from R = 120000
\* and P = 24000
C26_Witness ==
    /\ ValidatedOnce
    /\ vIn.v.annualProjections.k = "array"
    /\ Len(vIn.v.annualProjections.v) = 3
    /\ Year1Usable(vIn.v)
    /\ vIn.v.keyMetrics.v.year1TotalRevenue = Num(12000000)
    /\ vOut.model.v.annualProjections.v[2].revenue = 16800000
    /\ vOut.model.v.annualProjections.v[2].expenses = 12480000
    /\ vOut.model.v.annualProjections.v[5].netProfit = 38400000 - 24000000

\* the two monthly arrays can be padded: each is an array with an entry
Paddable(m) ==
    /\ m.revenueProjections.k = "array" /\ Len(m.revenueProjections.v) > 0
    /\ m.cashFlow.k = "array" /\ Len(m.cashFlow.v) > 0

\* C27: when the validator is called on an artifact whose monthly arrays can
\* be padded, whose annual array is absent or not of length 5 and whose year-1
\* revenue is below its year-1 net profit, or either of them is missing or not
\* finite, it returns without an error and the result's annual array is empty.
C27_NoReconstruction ==
    (vOut.calls = 1 /\ vIn.k = "object") =>
        ((Paddable(vIn.v) /\ ~AnnualGiven(vIn.v) /\ ~Year1Usable(vIn.v)) =>
            /\ ~vOut.threw
            /\ vOut.model.v.annualProjections = Arr(<< >>))

\* year-1 revenue 1 is below year-1 net profit 2 and the annual array had 3
\* entries: the validator returned an empty annual array
C27_Witness ==
    /\ ValidatedOnce
    /\ Paddable(vIn.v)
    /\ vIn.v.annualProjections.k = "array"
    /\ Len(vIn.v.annualProjections.v) = 3
    /\ vIn.v.keyMetrics.k = "object"
    /\ vIn.v.keyMetrics.v.year1TotalRevenue = Num(100)
    /\ vIn.v.keyMetrics.v.year1NetProfit = Num(200)
    /\ vOut.model.v.annualProjections = Arr(<< >>)

\* a key metric that is missing or not a finite number
MissingOrNonFinite(x) == x.k # "number"

\* the year-5 key metrics and the field of the annual entry each is taken from
Year5Source == [projectedYear5Revenue |-> "revenue", projectedYear5NetProfit |-> "netProfit"]

\* C28: when the validator returns, each year-5 key metric of the result is the
\* last annual entry's value if the metric given was missing or not finite and
\* the result's annual array has 5 entries, and is the metric given in every
\* other case, the value 0 included.
C28_Year5Backfill ==
    (ValidatedOnce /\ vIn.v.keyMetrics.k = "object") =>
        LET annual == vOut.model.v.annualProjections.v
        IN \A f \in DOMAIN Year5Source :
              vOut.model.v.keyMetrics.v[f] =
                 IF MissingOrNonFinite(vIn.v.keyMetrics.v[f]) /\ Len(annual) = 5
                 THEN Num(annual[5][Year5Source[f]])
                 ELSE vIn.v.keyMetrics.v[f]

\* a year-5 revenue of 0 was given with a 5-entry annual array, and the result
\* carries the fifth entry's revenue instead
C28_Witness ==
    /\ ValidatedOnce
    /\ vIn.v.keyMetrics.k = "object"
    /\ vIn.v.keyMetrics.v.projectedYear5Revenue = Num(0)
    /\ AnnualGiven(vIn.v)
    /\ vOut.model.v.keyMetrics.v.projectedYear5Revenue
          = Num(vIn.v.annualProjections.v[5].revenue)
    /\ vIn.v.annualProjections.v[5].revenue # 0

\* an artifact the validator has nothing to do on
WellFormed(m) ==
    /\ m.k = "object"
    /\ m.v.revenueProjections.k = "array" /\ Len(m.v.revenueProjections.v) = 12
    /\ m.v.cashFlow.k = "array" /\ Len(m.v.cashFlow.v) = 12
    /\ AnnualGiven(m.v)
    /\ m.v.keyMetrics.k = "object"
    /\ \A f \in DOMAIN Year5Source :
          m.v.keyMetrics.v[f].k = "number" /\ m.v.keyMetrics.v[f].v # 0
    /\ m.v.keyMetrics.v.breakEvenMonth.k = "number"
    /\ m.v.keyMetrics.v.breakEvenMonth.v \in 1..24

\* C30: the second call of the validator, on the artifact its first call
\* returned, returns without an error an artifact equal to that one; and the
\* first call returns a well-formed artifact (12, 12 and 5 entries, finite
\* non-zero year-5 metrics, break-even month in 1..24) as it was given.
C30_ValidatorIdempotent ==
    [][ /\ vOut'.calls = 2 => (~vOut'.threw /\ vOut'.model = vOut.model)
        /\ (vOut'.calls = 1 /\ WellFormed(vIn)) => (~vOut'.threw /\ vOut'.model = vIn)
      ]_vars

\* the first call padded a 10-entry revenue array and rebuilt the annual
\* array, and the second call returned its result as it was
C30_Witness ==
    /\ vOut.calls = 2
    /\ ~vOut.threw
    /\ Len(vIn.v.revenueProjections.v) = 10
    /\ ~AnnualGiven(vIn.v)
    /\ Len(vOut.model.v.revenueProjections.v) = 12
    /\ AnnualGiven(vOut.model.v)

\* C29 (as stated): when every call of a run returns, the Model the run works
\* on eventually has status completed or failed.
C29_ModelLeavesProcessing ==
    \A id \in ModelIds :
        KnownModel(id) ~> (KnownModel(id) /\ financialModels[id].status \in {"completed", "failed"})

\* C29: when every call of a run returns, the run eventually ends, and at its
\* end the Model has status completed or failed unless the store rejected
\* every status update the run issued, in which case the Model is still
\* processing.
C29_RunEnds ==
    \A r \in RunIds :
        (r \in Runs) ~>
            /\ r \in Runs
            /\ runs[r].pc = "done"
            /\ IF runs[r].writes = << >>
               THEN RowOf(runs[r]).status = "processing"
               ELSE RowOf(runs[r]).status \in {"completed", "failed"}

\* the model-construction call threw, the store rejected the catch block's
\* update and the handler's update, and the run has ended with its Model
\* still processing
C29_Witness ==
    \E r \in Runs : /\ runs[r].pc = "done"
                    /\ runs[r].failedAt = "runFinancialModelerAgent"
                    /\ runs[r].writes = << >>
                    /\ RowOf(runs[r]).status = "processing"

====
